---- MODULE Spec2Model ----
(***************************************************************************)
(* State-machine model of the Social NFT single-page application.          *)
(*                                                                         *)
(*   src/app/page.tsx       the upload page (component Home, route "/")    *)
(*   src/unnamed/part_000   the gallery page (component FeedPage, "/feed") *)
(*                                                                         *)
(* One action of the model is one task of the browser's event loop with    *)
(* the microtasks it runs: a click handler up to its first pending network *)
(* request, the continuation that runs when a request settles, a timer     *)
(* callback.  A rejected or resolved promise that needs no I/O settles in  *)
(* the task that created it, so no user event can come in between.         *)
(*                                                                         *)
(* Navigation between the two routes is client side (next/navigation,      *)
(* next/link): the component of the page that is left is unmounted, its    *)
(* pending promises and timers keep running, and the state setters they    *)
(* call no longer have any effect.  sessionStorage is shared by both       *)
(* pages.  Date.now() is taken to be non-decreasing.                       *)
(***************************************************************************)
EXTENDS Integers, Sequences, FiniteSets, TLC

\* ----------------------------------------------------------------- bounds
MaxStores == 2       \* store operations that reach the upload
MaxMounts == 4       \* page mounts (the first one included)
MaxClock == 3        \* Date.now() returns a value in 1..MaxClock
MaxConnects == 2     \* connectWallet calls that reach the provider
MaxMints == 2        \* mintNFT calls that reach the provider

\* ------------------------------------------------------------ input sets
CheckMark == "(v)"   \* stands for U+2713 in status texts
CrossMark == "(x)"   \* stands for U+274C in status texts
NoFile == "null"
NoId == "null"
SearchTerms == {"", "cat", "DO", "bird"}
Files == {"photo.png"}
Descriptions == {"", " ", "Cat", "dog"}
Clock == 1..MaxClock

\* What the wallet provider can answer.
Sub == "0xSub"
Universal == "0xUni"
RequestedAccountLists == {<<>>, <<Sub>>, <<Sub, Universal>>}
ActiveAccountLists == {<<>>, <<Sub, Universal>>, <<Universal, Sub>>}
ErrorMessages == {"", "no matching signer found", "User rejected the request"}
AccountResults(lists) ==
    {[ok |-> TRUE, accounts |-> a, message |-> ""] : a \in lists}
    \cup {[ok |-> FALSE, accounts |-> <<>>, message |-> "User rejected the request"]}
SendResults ==
    {[ok |-> TRUE, message |-> ""]}
    \cup {[ok |-> FALSE, message |-> m] : m \in ErrorMessages}

\* What the pinning endpoint can answer to the POST: the fetch rejects, a
\* non-2xx status with or without error details, a 2xx with or without hash.
Responses ==
    { [rejects |-> TRUE,  ok |-> FALSE, status |-> 0,   details |-> "", IpfsHash |-> ""],
      [rejects |-> FALSE, ok |-> FALSE, status |-> 401, details |-> "Invalid token", IpfsHash |-> ""],
      [rejects |-> FALSE, ok |-> FALSE, status |-> 500, details |-> "", IpfsHash |-> ""],
      [rejects |-> FALSE, ok |-> TRUE,  status |-> 200, details |-> "", IpfsHash |-> ""],
      [rejects |-> FALSE, ok |-> TRUE,  status |-> 200, details |-> "", IpfsHash |-> "QmA"] }

VARIABLES
    pinataJWT,        \* process.env.NEXT_PUBLIC_PINATA_JWT is set
    page,             \* the mounted route: "home" or "feed"
    mounts,           \* number of page mounts so far; names the mounted instance
    description,      \* Home state
    imageFile,
    loading,
    status,
    uploadingImage,
    storage,          \* sessionStorage item "stored_images"
    storeOps,         \* storeImage calls waiting for the pinning endpoint
    redirects,        \* pending setTimeout(() => router.push("/feed"), 2000)
    now,              \* last value Date.now() returned
    images,           \* FeedPage state
    feedLoading,
    searchTerm,
    provider,         \* the SDK's provider is set (not null)
    connected,
    subAccountAddress,
    universalAddress,
    connectLoading,
    mintingImageId,
    mintStatus,       \* record id -> status text; no entry when deleted
    connectOps,       \* connectWallet calls that have not returned
    mintOps,          \* mintNFT calls waiting for the provider
    mintTimers,       \* pending setTimeout(..., 8000) of mintNFT calls
    nConnects,        \* history: connectWallet calls that reached the provider
    nMints,           \* history: mintNFT calls that reached the provider
    nAlerts,          \* history: alert() calls
    nFetch,           \* history: POSTs issued to the pinning endpoint
    nStarted,         \* history: storeImage calls that called uploadImageToPinata
    nStored           \* history: storeImage calls that wrote the record list

homeVars == <<description, imageFile, loading, status, uploadingImage>>
feedVars == <<images, feedLoading, searchTerm, provider, connected,
              subAccountAddress, universalAddress, connectLoading,
              mintingImageId, mintStatus>>
walletOps == <<connectOps, mintOps, mintTimers>>
walletHist == <<nConnects, nMints, nAlerts>>
histVars == <<nFetch, nStarted, nStored>>
uploadVars == <<pinataJWT, homeVars, storage, storeOps, redirects, now, histVars>>
vars == <<pinataJWT, page, mounts, homeVars, storage, storeOps, redirects, now,
          feedVars, walletOps, walletHist, histVars>>

\* -------------------------------------------------------- pure functions

IsSpace(c) == c \in {" ", "\t", "\n"}

RECURSIVE TrimStart(_)
TrimStart(s) ==
    IF Len(s) > 0 /\ IsSpace(SubSeq(s, 1, 1))
    THEN TrimStart(SubSeq(s, 2, Len(s)))
    ELSE s

RECURSIVE TrimEnd(_)
TrimEnd(s) ==
    IF Len(s) > 0 /\ IsSpace(SubSeq(s, Len(s), Len(s)))
    THEN TrimEnd(SubSeq(s, 1, Len(s) - 1))
    ELSE s

\* String.prototype.trim
Trim(s) == TrimEnd(TrimStart(s))

\* JSON.stringify of a StoredImage[]: the text holds, per record, the four
\* values in key order.
JSONstringify(list) ==
    [wellFormed |-> TRUE,
     objects |-> [i \in 1..Len(list) |->
                    <<list[i].id, list[i].image, list[i].description, list[i].timestamp>>]]

\* A stored text that is no JSON.
MalformedText == [wellFormed |-> FALSE, objects |-> <<>>]

\* JSON.parse: throws a SyntaxError on a text that is no JSON.
JSONparse(text) ==
    IF text.wellFormed
    THEN [threw |-> FALSE, message |-> "",
          value |-> [i \in 1..Len(text.objects) |->
                       [id |-> text.objects[i][1], image |-> text.objects[i][2],
                        description |-> text.objects[i][3],
                        timestamp |-> text.objects[i][4]]]]
    ELSE [threw |-> TRUE, message |-> "Unexpected token", value |-> <<>>]

\* sessionStorage: getItem returns null for an absent key.
Absent == [present |-> FALSE, text |-> MalformedText]
Item(text) == [present |-> TRUE, text |-> text]

\* ------------------------------------------------------ the upload page

\* The Store button's disabled attribute.
StoreButtonDisabled == loading \/ uploadingImage \/ imageFile = NoFile

\* The file input's and the textarea's disabled attribute.
InputsDisabled == loading \/ uploadingImage

\* Mutant: the description is tested as it was typed.
InputInvalid_NoTrim(file, desc) == file = NoFile \/ desc = ""

\* storeImage's first test.
InputInvalid(file, desc) == file = NoFile \/ Trim(desc) = ""

\* Mutant: the credential is never tested before the fetch.
CredentialMissing_NotTested == FALSE

\* uploadImageToPinata's test of the credential.
CredentialMissing == ~pinataJWT

ConfigurationError ==
    "Pinata JWT not configured. Add NEXT_PUBLIC_PINATA_JWT to .env.local"

\* Mutant: the hash is returned as it is, without the scheme.
UploadOutcome_NoScheme(resp) ==
    IF resp.rejects
    THEN [ok |-> FALSE, value |-> "Failed to fetch"]
    ELSE IF ~resp.ok
    THEN [ok |-> FALSE,
          value |-> "Pinata upload failed (" \o ToString(resp.status) \o "): "
                    \o (IF resp.details # "" THEN resp.details ELSE "Unknown error")]
    ELSE IF resp.IpfsHash = ""
    THEN [ok |-> FALSE, value |-> "No IPFS hash returned from Pinata"]
    ELSE [ok |-> TRUE, value |-> resp.IpfsHash]

\* Mutant: a 2xx answer is taken as a success without looking at the hash.
UploadOutcome_HashNotTested(resp) ==
    IF resp.rejects
    THEN [ok |-> FALSE, value |-> "Failed to fetch"]
    ELSE IF ~resp.ok
    THEN [ok |-> FALSE,
          value |-> "Pinata upload failed (" \o ToString(resp.status) \o "): "
                    \o (IF resp.details # "" THEN resp.details ELSE "Unknown error")]
    ELSE [ok |-> TRUE, value |-> "ipfs://" \o resp.IpfsHash]

\* What uploadImageToPinata makes of the endpoint's answer: the reference it
\* returns, or the message of the Error it throws.
UploadOutcome(resp) ==
    IF resp.rejects
    THEN [ok |-> FALSE, value |-> "Failed to fetch"]
    ELSE IF ~resp.ok
    THEN [ok |-> FALSE,
          value |-> "Pinata upload failed (" \o ToString(resp.status) \o "): "
                    \o (IF resp.details # "" THEN resp.details ELSE "Unknown error")]
    ELSE IF resp.IpfsHash = ""
    THEN [ok |-> FALSE, value |-> "No IPFS hash returned from Pinata"]
    ELSE [ok |-> TRUE, value |-> "ipfs://" \o resp.IpfsHash]

\* The record storeImage builds; t1 and t2 are its two reads of Date.now().
NewImage(t1, t2, imageIpfsUrl, desc) ==
    [id |-> ToString(t1), image |-> imageIpfsUrl, description |-> desc,
     timestamp |-> t2]

\* storeImage's read of the list: existingImages ? JSON.parse(...) : [].
ExistingImages ==
    IF storage.present THEN JSONparse(storage.text)
    ELSE [threw |-> FALSE, message |-> "", value |-> <<>>]

\* Mutant: the new record takes the place of the newest one.
UpdatedImages_Replaced(newImage, list) ==
    IF list = <<>> THEN <<newImage>> ELSE <<newImage>> \o Tail(list)

\* Mutant: the new record is put at the end of the list.
UpdatedImages_AtEnd(newImage, list) == list \o <<newImage>>

\* Mutant: the new record replaces the list.
UpdatedImages_Alone(newImage, list) == <<newImage>>

\* storeImage's new list: [newImage, ...images].
UpdatedImages(newImage, list) == <<newImage>> \o list

\* The state a freshly mounted Home holds.
HomeInitial ==
    /\ description' = ""
    /\ imageFile' = NoFile
    /\ loading' = FALSE
    /\ status' = "Ready to store images"
    /\ uploadingImage' = FALSE

\* The state setters of a storeImage call act on the instance that made the
\* call, while it is mounted.
Mounted(op) == page = "home" /\ op.inst = mounts

SelectFile(f) ==
    /\ page = "home"
    /\ ~InputsDisabled
    /\ imageFile' = f
    /\ UNCHANGED <<pinataJWT, page, mounts, description, loading, status,
                   uploadingImage, storage, storeOps, redirects, now, feedVars,
                   walletOps, walletHist, histVars>>

TypeDescription(d) ==
    /\ page = "home"
    /\ ~InputsDisabled
    /\ description' = d
    /\ UNCHANGED <<pinataJWT, page, mounts, imageFile, loading, status,
                   uploadingImage, storage, storeOps, redirects, now, feedVars,
                   walletOps, walletHist, histVars>>

\* Click on Store: storeImage up to the pending fetch.  Without a credential
\* uploadImageToPinata throws before the fetch and storeImage's catch and
\* finally run in the same task.
StoreClick ==
    /\ page = "home"
    /\ ~StoreButtonDisabled
    /\ IF InputInvalid(imageFile, description)
       THEN /\ status' = "Please select an image and add a description"
            /\ UNCHANGED <<loading, uploadingImage, storeOps, nFetch, nStarted>>
       ELSE /\ nStarted < MaxStores
            /\ nStarted' = nStarted + 1
            /\ IF CredentialMissing
               THEN /\ status' = "Storage failed: " \o ConfigurationError
                    /\ loading' = FALSE
                    /\ uploadingImage' = FALSE
                    /\ UNCHANGED <<storeOps, nFetch>>
               ELSE /\ status' = "Uploading image to IPFS..."
                    /\ loading' = TRUE
                    /\ uploadingImage' = TRUE
                    /\ nFetch' = nFetch + 1
                    /\ storeOps' = storeOps \cup
                          {[id |-> nStarted + 1, inst |-> mounts,
                            description |-> description]}
    /\ UNCHANGED <<pinataJWT, page, mounts, description, imageFile, storage,
                   redirects, now, feedVars, walletOps, walletHist, nStored>>

\* The pinning endpoint answers: the rest of uploadImageToPinata and of
\* storeImage.
FetchSettles(op, resp, t1, t2) ==
    LET out == UploadOutcome(resp)
        existing == ExistingImages
        stored == out.ok /\ ~existing.threw
        message == IF ~out.ok THEN out.value ELSE existing.message
    IN  /\ op \in storeOps
        /\ storeOps' = storeOps \ {op}
        /\ IF out.ok
           THEN now <= t1 /\ t1 <= t2 /\ now' = t2
           ELSE t1 = now /\ t2 = now /\ now' = now
        /\ IF stored
           THEN /\ storage' = Item(JSONstringify(
                       UpdatedImages(NewImage(t1, t2, out.value, op.description),
                                     existing.value)))
                /\ redirects' = redirects + 1
                /\ nStored' = nStored + 1
           ELSE UNCHANGED <<storage, redirects, nStored>>
        /\ IF Mounted(op)
           THEN /\ uploadingImage' = FALSE
                /\ loading' = FALSE
                /\ IF stored
                   THEN /\ status' = CheckMark \o " Image stored permanently on IPFS!"
                        /\ imageFile' = NoFile
                        /\ description' = ""
                   ELSE /\ status' = "Storage failed: " \o message
                        /\ UNCHANGED <<imageFile, description>>
           ELSE UNCHANGED homeVars
        /\ UNCHANGED <<pinataJWT, page, mounts, feedVars, walletOps, walletHist,
                       nFetch, nStarted>>

\* ----------------------------------------------------- the gallery page

\* Mutant: the comparator sorts oldest first.
Compare_Ascending(a, b) == a.timestamp - b.timestamp

\* loadImages' comparator.
Compare(a, b) == b.timestamp - a.timestamp

\* Array.prototype.sort with Compare: a stable sort.
RECURSIVE Insert(_, _)
Insert(x, sorted) ==
    IF sorted = <<>> THEN <<x>>
    ELSE IF Compare(Head(sorted), x) <= 0
         THEN <<Head(sorted)>> \o Insert(x, Tail(sorted))
         ELSE <<x>> \o sorted

RECURSIVE SortImages(_)
SortImages(list) ==
    IF list = <<>> THEN <<>>
    ELSE Insert(list[Len(list)], SortImages(SubSeq(list, 1, Len(list) - 1)))

\* What loadImages leaves in `images`: the sorted list, or the initial empty
\* list when the item is absent or JSON.parse throws.
LoadedImages ==
    IF ~storage.present THEN <<>>
    ELSE LET parsed == JSONparse(storage.text)
         IN  IF parsed.threw THEN <<>> ELSE SortImages(parsed.value)

\* String.prototype.toLowerCase on the characters the inputs use.
LowerChar(c) ==
    CASE c = "A" -> "a" [] c = "B" -> "b" [] c = "C" -> "c"
      [] c = "D" -> "d" [] c = "E" -> "e" [] c = "F" -> "f"
      [] c = "G" -> "g" [] c = "H" -> "h" [] c = "I" -> "i"
      [] c = "J" -> "j" [] c = "K" -> "k" [] c = "L" -> "l"
      [] c = "M" -> "m" [] c = "N" -> "n" [] c = "O" -> "o"
      [] c = "P" -> "p" [] c = "Q" -> "q" [] c = "R" -> "r"
      [] c = "S" -> "s" [] c = "T" -> "t" [] c = "U" -> "u"
      [] c = "V" -> "v" [] c = "W" -> "w" [] c = "X" -> "x"
      [] c = "Y" -> "y" [] c = "Z" -> "z"
      [] OTHER -> c

RECURSIVE ToLowerCase(_)
ToLowerCase(s) ==
    IF Len(s) = 0 THEN s
    ELSE LowerChar(SubSeq(s, 1, 1)) \o ToLowerCase(SubSeq(s, 2, Len(s)))

\* String.prototype.includes
Includes(s, t) ==
    \E i \in 1..(Len(s) + 1) :
        i + Len(t) - 1 <= Len(s) /\ SubSeq(s, i, i + Len(t) - 1) = t

\* Mutant: the description is compared as it is written.
Matches_CaseSensitive(image, term) ==
    IF term = "" THEN TRUE
    ELSE Includes(image.description, ToLowerCase(term))

\* The filter's predicate: every image for the empty term, else the images
\* whose description includes the term, both in lower case.
Matches(image, term) ==
    IF term = "" THEN TRUE
    ELSE Includes(ToLowerCase(image.description), ToLowerCase(term))

\* images.filter(...) with that predicate.
RECURSIVE FilterImages(_, _)
FilterImages(list, term) ==
    IF list = <<>> THEN <<>>
    ELSE (IF Matches(Head(list), term) THEN <<Head(list)>> ELSE <<>>)
         \o FilterImages(Tail(list), term)

FilteredImages == FilterImages(images, searchTerm)

\* The state of FeedPage while it is not mounted (the model's convention).
FeedUnmounted ==
    /\ images' = <<>>
    /\ feedLoading' = TRUE
    /\ searchTerm' = ""
    /\ provider' = FALSE
    /\ connected' = FALSE
    /\ subAccountAddress' = ""
    /\ universalAddress' = ""
    /\ connectLoading' = FALSE
    /\ mintingImageId' = NoId
    /\ mintStatus' = <<>>

\* Mount of FeedPage: the initial state, then its two effects: initializeSDK
\* sets the provider unless createBaseAccountSDK throws (sdkOk), loadImages
\* reads the list.  Home is unmounted; the model keeps its variables at
\* their initial values.
MountFeed(sdkOk) ==
    /\ page' = "feed"
    /\ mounts' = mounts + 1
    /\ images' = LoadedImages
    /\ feedLoading' = FALSE
    /\ searchTerm' = ""
    /\ provider' = sdkOk
    /\ connected' = FALSE
    /\ subAccountAddress' = ""
    /\ universalAddress' = ""
    /\ connectLoading' = FALSE
    /\ mintingImageId' = NoId
    /\ mintStatus' = <<>>
    /\ HomeInitial

\* Mount of Home; FeedPage is unmounted.
MountHome ==
    /\ page' = "home"
    /\ mounts' = mounts + 1
    /\ HomeInitial
    /\ FeedUnmounted

\* Click on "View Feed": router.push("/feed").
ViewFeedClick ==
    /\ page = "home"
    /\ mounts < MaxMounts
    /\ \E sdkOk \in BOOLEAN : MountFeed(sdkOk)
    /\ UNCHANGED <<pinataJWT, storage, storeOps, redirects, now, walletOps,
                   walletHist, histVars>>

\* The timer of a successful store fires: router.push("/feed").
RedirectFires ==
    /\ redirects > 0
    /\ redirects' = redirects - 1
    /\ IF page = "home"
       THEN mounts < MaxMounts /\ \E sdkOk \in BOOLEAN : MountFeed(sdkOk)
       ELSE UNCHANGED <<page, mounts, homeVars, feedVars>>
    /\ UNCHANGED <<pinataJWT, storage, storeOps, now, walletOps, walletHist,
                   histVars>>

\* Click on "Create Post": Link href="/".
CreatePostClick ==
    /\ page = "feed"
    /\ mounts < MaxMounts
    /\ MountHome
    /\ UNCHANGED <<pinataJWT, storage, storeOps, redirects, now, walletOps,
                   walletHist, histVars>>

\* Mutant: the filtered list is kept as the loaded list.
TypeSearch_KeepsFiltered(term) ==
    /\ page = "feed"
    /\ Len(images) > 0
    /\ searchTerm' = term
    /\ images' = FilterImages(images, term)
    /\ UNCHANGED <<page, mounts, uploadVars, feedLoading, provider,
                   connected, subAccountAddress, universalAddress,
                   connectLoading, mintingImageId, mintStatus, walletOps,
                   walletHist>>

\* Typing in the search box, shown when images is not empty.
TypeSearch(term) ==
    /\ page = "feed"
    /\ Len(images) > 0
    /\ searchTerm' = term
    /\ UNCHANGED <<page, mounts, uploadVars, images, feedLoading, provider,
                   connected, subAccountAddress, universalAddress,
                   connectLoading, mintingImageId, mintStatus, walletOps,
                   walletHist>>

\* ------------------------------------------------- the wallet bridge

\* The setters of a connectWallet or mintNFT call act on the FeedPage
\* instance that made the call, while it is mounted.
FeedMounted(op) == page = "feed" /\ op.inst = mounts

\* setMintStatus(prev => ({ ...prev, [id]: text }))
SetStatus(m, id, text) ==
    [k \in DOMAIN m \cup {id} |-> IF k = id THEN text ELSE m[k]]

\* setMintStatus(prev => { delete newStatus[id] })
DeleteStatus(m, id) == [k \in DOMAIN m \ {id} |-> m[k]]

\* The cards are rendered once loading is over, one per filtered image.
CardsShown == page = "feed" /\ ~feedLoading /\ FilteredImages # <<>>

\* The header's connect button: disabled={connectLoading || !provider}.
HeaderConnectDisabled == connectLoading \/ ~provider

\* A card's "Connect to Mint" button has no disabled attribute.
CardConnectDisabled == FALSE

\* Mutant: the provider is not tested.
ConnectClick_ProviderNotTested(control) ==
    /\ page = "feed"
    /\ ~connected
    /\ \/ control = "header" /\ ~HeaderConnectDisabled
       \/ control = "card" /\ CardsShown /\ ~CardConnectDisabled
    /\ nConnects < MaxConnects
    /\ nConnects' = nConnects + 1
    /\ connectLoading' = TRUE
    /\ connectOps' = connectOps \cup
          {[id |-> nConnects + 1, inst |-> mounts, pc |-> "wallet_connect"]}
    /\ UNCHANGED <<page, mounts, uploadVars, images, feedLoading, searchTerm,
                   provider, connected, subAccountAddress, universalAddress,
                   mintingImageId, mintStatus, mintOps, mintTimers, nMints,
                   nAlerts>>

\* Click on a connect button (both are rendered while !connected):
\* connectWallet up to the pending wallet_connect request.
ConnectClick(control) ==
    /\ page = "feed"
    /\ ~connected
    /\ \/ control = "header" /\ ~HeaderConnectDisabled
       \/ control = "card" /\ CardsShown /\ ~CardConnectDisabled
    /\ IF ~provider
       THEN UNCHANGED <<connectLoading, connectOps, nConnects>>
       ELSE /\ nConnects < MaxConnects
            /\ nConnects' = nConnects + 1
            /\ connectLoading' = TRUE
            /\ connectOps' = connectOps \cup
                  {[id |-> nConnects + 1, inst |-> mounts, pc |-> "wallet_connect"]}
    /\ UNCHANGED <<page, mounts, uploadVars, images, feedLoading, searchTerm,
                   provider, connected, subAccountAddress, universalAddress,
                   mintingImageId, mintStatus, mintOps, mintTimers, nMints,
                   nAlerts>>

\* connectWallet's catch and finally.
ConnectFailed(op) ==
    /\ connectOps' = connectOps \ {op}
    /\ nAlerts' = nAlerts + 1
    /\ connectLoading' = IF FeedMounted(op) THEN FALSE ELSE connectLoading
    /\ UNCHANGED <<subAccountAddress, universalAddress, connected>>

\* wallet_connect settles; on success eth_requestAccounts is requested.
WalletConnectSettles(op, ok) ==
    /\ op \in connectOps
    /\ op.pc = "wallet_connect"
    /\ IF ok
       THEN /\ connectOps' = (connectOps \ {op}) \cup
                               {[op EXCEPT !.pc = "eth_requestAccounts"]}
            /\ UNCHANGED <<nAlerts, connectLoading, subAccountAddress,
                           universalAddress, connected>>
       ELSE ConnectFailed(op)
    /\ UNCHANGED <<page, mounts, uploadVars, images, feedLoading, searchTerm,
                   provider, mintingImageId, mintStatus, mintOps, mintTimers,
                   nConnects, nMints>>

\* accounts[0], undefined for an empty list (kept as the falsy "").
SubAddr(accounts) == IF Len(accounts) >= 1 THEN accounts[1] ELSE ""

\* accounts[1] || accounts[0]
UniversalAddr(accounts) ==
    IF Len(accounts) >= 2 /\ accounts[2] # "" THEN accounts[2]
    ELSE SubAddr(accounts)

\* eth_requestAccounts settles; on success the two addresses are set and
\* the one-second wait begins.
RequestAccountsSettles(op, res) ==
    /\ op \in connectOps
    /\ op.pc = "eth_requestAccounts"
    /\ IF res.ok
       THEN /\ connectOps' = (connectOps \ {op}) \cup {[op EXCEPT !.pc = "wait"]}
            /\ IF FeedMounted(op)
               THEN /\ subAccountAddress' = SubAddr(res.accounts)
                    /\ universalAddress' = UniversalAddr(res.accounts)
               ELSE UNCHANGED <<subAccountAddress, universalAddress>>
            /\ UNCHANGED <<nAlerts, connectLoading, connected>>
       ELSE ConnectFailed(op)
    /\ UNCHANGED <<page, mounts, uploadVars, images, feedLoading, searchTerm,
                   provider, mintingImageId, mintStatus, mintOps, mintTimers,
                   nConnects, nMints>>

\* The one-second wait is over: setConnected(true), then finally.
ConnectWaitEnds(op) ==
    /\ op \in connectOps
    /\ op.pc = "wait"
    /\ connectOps' = connectOps \ {op}
    /\ IF FeedMounted(op)
       THEN connected' = TRUE /\ connectLoading' = FALSE
       ELSE UNCHANGED <<connected, connectLoading>>
    /\ UNCHANGED <<page, mounts, uploadVars, images, feedLoading, searchTerm,
                   provider, subAccountAddress, universalAddress,
                   mintingImageId, mintStatus, mintOps, mintTimers, walletHist>>

\* Click on the connected badge: the disconnect handler.
DisconnectClick ==
    /\ page = "feed"
    /\ connected
    /\ connected' = FALSE
    /\ subAccountAddress' = ""
    /\ universalAddress' = ""
    /\ UNCHANGED <<page, mounts, uploadVars, images, feedLoading, searchTerm,
                   provider, connectLoading, mintingImageId, mintStatus,
                   walletOps, walletHist>>

\* A card's mint button: disabled={mintingImageId === image.id}.
MintButtonDisabled(image) == mintingImageId = image.id

\* Mutant: the sub-account address is not tested.
WalletNotReady_ProviderOnly(prov, subAddr) == ~prov

\* mintNFT's first test, on the provider and the sub-account address of the
\* render the callback was made in.
WalletNotReady(prov, subAddr) == ~prov \/ subAddr = ""

\* Click on a card's mint button (rendered while connected): mintNFT up to
\* the pending eth_accounts request.
MintClick(image) ==
    /\ CardsShown
    /\ connected
    /\ \E i \in 1..Len(FilteredImages) : FilteredImages[i] = image
    /\ ~MintButtonDisabled(image)
    /\ IF WalletNotReady(provider, subAccountAddress)
       THEN /\ mintStatus' = SetStatus(mintStatus, image.id,
                                       "Please connect wallet first")
            /\ UNCHANGED <<mintingImageId, mintOps, nMints>>
       ELSE /\ nMints < MaxMints
            /\ nMints' = nMints + 1
            /\ mintingImageId' = image.id
            /\ mintStatus' = SetStatus(mintStatus, image.id,
                                       "Preparing transaction...")
            /\ mintOps' = mintOps \cup
                  {[id |-> nMints + 1, inst |-> mounts, image |-> image,
                    subAccountAddress |-> subAccountAddress,
                    pc |-> "eth_accounts", params |-> <<>>]}
    /\ UNCHANGED <<page, mounts, uploadVars, images, feedLoading, searchTerm,
                   provider, connected, subAccountAddress, universalAddress,
                   connectLoading, connectOps, mintTimers, nConnects, nAlerts>>

\* String.prototype.slice(0, n)
Slice(s, n) == SubSeq(s, 1, IF Len(s) < n THEN Len(s) ELSE n)

\* Mutant: the test for "rejected" and "denied" comes first.
ErrorText_RejectedFirst(message) ==
    IF message = "" THEN "Mint failed"
    ELSE IF Includes(message, "rejected") \/ Includes(message, "denied")
    THEN "Transaction rejected"
    ELSE IF Includes(message, "no matching signer")
    THEN "Sub-account not ready. Please reconnect wallet."
    ELSE IF Includes(message, "insufficient")
    THEN "Insufficient funds for gas"
    ELSE Slice(message, 50)

\* The text mintNFT's catch shows for an error with this message ("" for an
\* error without message).
ErrorText(message) ==
    IF message = "" THEN "Mint failed"
    ELSE IF Includes(message, "no matching signer")
    THEN "Sub-account not ready. Please reconnect wallet."
    ELSE IF Includes(message, "insufficient")
    THEN "Insufficient funds for gas"
    ELSE IF Includes(message, "rejected") \/ Includes(message, "denied")
    THEN "Transaction rejected"
    ELSE Slice(message, 50)

\* The end of a mintNFT call: the final status, the 8-second timer that
\* deletes it, and finally setMintingImageId(null).
MintEnds(op, text) ==
    /\ mintOps' = mintOps \ {op}
    /\ mintTimers' = mintTimers \cup
          {[id |-> op.id, inst |-> op.inst, imageId |-> op.image.id]}
    /\ IF FeedMounted(op)
       THEN /\ mintStatus' = SetStatus(mintStatus, op.image.id, text)
            /\ mintingImageId' = NoId
       ELSE UNCHANGED <<mintStatus, mintingImageId>>

\* The contract the mint goes to, and the one function of its ABI.
NFT_CONTRACT_ADDRESS == "0x54396910e3a670a9C4F75d5314192EA897491C3c"
NFT_CONTRACT_ABI == {[name |-> "mintNFT", inputs |-> <<"string">>]}

\* baseSepolia.id of viem/chains.
BaseSepoliaId == 84532

\* Number.prototype.toString(16)
RECURSIVE ToString16(_)
ToString16(n) ==
    IF n < 16 THEN SubSeq("0123456789abcdef", n + 1, n + 1)
    ELSE ToString16(n \div 16) \o SubSeq("0123456789abcdef", (n % 16) + 1, (n % 16) + 1)

\* viem's encodeFunctionData: the call data names the function of the ABI by
\* its signature and carries the encoded arguments after it, one per input.
EncodeFunctionData(abi, functionName, args) ==
    LET f == CHOOSE g \in abi : g.name = functionName
    IN  <<f.name \o "(" \o f.inputs[1] \o ")">> \o args

\* Mutant: the call carries the record's description.
SendCallsParams_Description(op) ==
    [version |-> "2.0",
     atomicRequired |-> TRUE,
     chainId |-> "0x" \o ToString16(BaseSepoliaId),
     from |-> op.subAccountAddress,
     calls |-> <<[to |-> NFT_CONTRACT_ADDRESS,
                  data |-> EncodeFunctionData(NFT_CONTRACT_ABI, "mintNFT",
                                              <<op.image.description>>),
                  value |-> "0x0"]>>]

\* The one element of the params of mintNFT's wallet_sendCalls request; the
\* sub-account address is the one of the render the callback was made in.
SendCallsParams(op) ==
    [version |-> "2.0",
     atomicRequired |-> TRUE,
     chainId |-> "0x" \o ToString16(BaseSepoliaId),
     from |-> op.subAccountAddress,
     calls |-> <<[to |-> NFT_CONTRACT_ADDRESS,
                  data |-> EncodeFunctionData(NFT_CONTRACT_ABI, "mintNFT",
                                              <<op.image.image>>),
                  value |-> "0x0"]>>]

\* Mutant: only an empty list fails the test.
AccountMismatch_EmptyOnly(accounts, subAddr) == Len(accounts) = 0

\* mintNFT's test of the active account: accounts.length === 0 ||
\* accounts[0] !== subAccountAddress.
AccountMismatch(accounts, subAddr) ==
    Len(accounts) = 0 \/ accounts[1] # subAddr

\* The message of the Error mintNFT throws when that test fails, and the
\* text its catch makes of it.
AccountError == "Sub-account not properly initialized. Please reconnect."
AccountErrorText == ErrorText(AccountError)

\* eth_accounts settles: the test of the active account, then the
\* wallet_sendCalls request.
EthAccountsSettles(op, res) ==
    /\ op \in mintOps
    /\ op.pc = "eth_accounts"
    /\ IF ~res.ok
       THEN MintEnds(op, CrossMark \o " " \o ErrorText(res.message))
       ELSE IF AccountMismatch(res.accounts, op.subAccountAddress)
       THEN MintEnds(op, CrossMark \o " " \o AccountErrorText)
       ELSE /\ mintOps' = (mintOps \ {op}) \cup
                            {[op EXCEPT !.pc = "wallet_sendCalls",
                                        !.params = <<SendCallsParams(op)>>]}
            /\ mintStatus' = IF FeedMounted(op)
                             THEN SetStatus(mintStatus, op.image.id,
                                            "Confirm in wallet...")
                             ELSE mintStatus
            /\ UNCHANGED <<mintTimers, mintingImageId>>
    /\ UNCHANGED <<page, mounts, uploadVars, images, feedLoading, searchTerm,
                   provider, connected, subAccountAddress, universalAddress,
                   connectLoading, connectOps, walletHist>>

\* wallet_sendCalls settles.
SendCallsSettles(op, res) ==
    /\ op \in mintOps
    /\ op.pc = "wallet_sendCalls"
    /\ IF res.ok
       THEN MintEnds(op, CheckMark \o " NFT Minted Successfully!")
       ELSE MintEnds(op, CrossMark \o " " \o ErrorText(res.message))
    /\ UNCHANGED <<page, mounts, uploadVars, images, feedLoading, searchTerm,
                   provider, connected, subAccountAddress, universalAddress,
                   connectLoading, connectOps, walletHist>>

\* An 8-second timer fires: the record's status is deleted.
MintTimerFires(timer) ==
    /\ timer \in mintTimers
    /\ mintTimers' = mintTimers \ {timer}
    /\ mintStatus' = IF FeedMounted(timer)
                     THEN DeleteStatus(mintStatus, timer.imageId)
                     ELSE mintStatus
    /\ UNCHANGED <<page, mounts, uploadVars, images, feedLoading, searchTerm,
                   provider, connected, subAccountAddress, universalAddress,
                   connectLoading, mintingImageId, connectOps, mintOps,
                   walletHist>>

\* ------------------------------------------------------- specification

\* The session opens on the upload page.  The session storage of a new
\* session holds no item; a text that is no JSON can only have been put
\* there from outside the two pages.
Init ==
    /\ pinataJWT \in BOOLEAN
    /\ page = "home"
    /\ mounts = 1
    /\ description = ""
    /\ imageFile = NoFile
    /\ loading = FALSE
    /\ status = "Ready to store images"
    /\ uploadingImage = FALSE
    /\ storage \in {Absent, Item(MalformedText)}
    /\ storeOps = {}
    /\ redirects = 0
    /\ now = 1
    /\ images = <<>>
    /\ feedLoading = TRUE
    /\ searchTerm = ""
    /\ provider = FALSE
    /\ connected = FALSE
    /\ subAccountAddress = ""
    /\ universalAddress = ""
    /\ connectLoading = FALSE
    /\ mintingImageId = NoId
    /\ mintStatus = <<>>
    /\ connectOps = {}
    /\ mintOps = {}
    /\ mintTimers = {}
    /\ nConnects = 0
    /\ nMints = 0
    /\ nAlerts = 0
    /\ nFetch = 0
    /\ nStarted = 0
    /\ nStored = 0

\* The upload flow, the record list and the gallery's load.
Next ==
    \/ \E f \in Files \cup {NoFile} : SelectFile(f)
    \/ \E d \in Descriptions : TypeDescription(d)
    \/ StoreClick
    \/ \E op \in storeOps, resp \in Responses, t1, t2 \in Clock :
           FetchSettles(op, resp, t1, t2)
    \/ ViewFeedClick
    \/ RedirectFires
    \/ CreatePostClick
    \/ \E term \in SearchTerms : TypeSearch(term)

Spec == Init /\ [][Next]_vars

\* Records as earlier store operations of the session leave them.
SampleLists ==
    { <<>>,
      <<NewImage(2, 2, "ipfs://QmA", "dog"), NewImage(1, 1, "ipfs://QmA", "Cat")>> }

\* The gallery page, mounted on a session whose storage holds a record list.
WalletInit ==
    /\ pinataJWT = TRUE
    /\ page = "feed"
    /\ mounts = 1
    /\ description = ""
    /\ imageFile = NoFile
    /\ loading = FALSE
    /\ status = "Ready to store images"
    /\ uploadingImage = FALSE
    /\ \E list \in SampleLists :
          /\ storage = Item(JSONstringify(list))
          /\ images = SortImages(JSONparse(JSONstringify(list)).value)
    /\ storeOps = {}
    /\ redirects = 0
    /\ now = MaxClock
    /\ feedLoading = FALSE
    /\ searchTerm = ""
    /\ provider \in BOOLEAN
    /\ connected = FALSE
    /\ subAccountAddress = ""
    /\ universalAddress = ""
    /\ connectLoading = FALSE
    /\ mintingImageId = NoId
    /\ mintStatus = <<>>
    /\ connectOps = {}
    /\ mintOps = {}
    /\ mintTimers = {}
    /\ nConnects = 0
    /\ nMints = 0
    /\ nAlerts = 0
    /\ nFetch = 0
    /\ nStarted = 0
    /\ nStored = 0

\* The wallet flows of the gallery page.
WalletNext ==
    \/ \E control \in {"header", "card"} : ConnectClick(control)
    \/ \E op \in connectOps, ok \in BOOLEAN : WalletConnectSettles(op, ok)
    \/ \E op \in connectOps, res \in AccountResults(RequestedAccountLists) :
           RequestAccountsSettles(op, res)
    \/ \E op \in connectOps : ConnectWaitEnds(op)
    \/ DisconnectClick
    \/ \E i \in 1..Len(images) : MintClick(images[i])
    \/ \E op \in mintOps, res \in AccountResults(ActiveAccountLists) :
           EthAccountsSettles(op, res)
    \/ \E op \in mintOps, res \in SendResults : SendCallsSettles(op, res)
    \/ \E timer \in mintTimers : MintTimerFires(timer)

WalletSpec == WalletInit /\ [][WalletNext]_vars

\* A whole session: both pages and the wallet, with one file, two
\* descriptions, a clock that stands still, the endpoint answering 2xx with
\* or without hash or 500, and a wallet that answers with its two accounts.
SessionInit == Init /\ pinataJWT /\ storage = Absent

SessionResponses ==
    {resp \in Responses : ~resp.rejects /\ (resp.ok \/ resp.details = "")}

SessionAccounts == [ok |-> TRUE, accounts |-> <<Sub, Universal>>, message |-> ""]

SessionNext ==
    \/ \E f \in Files : SelectFile(f)
    \/ \E d \in {"Cat", "dog"} : TypeDescription(d)
    \/ StoreClick
    \/ \E op \in storeOps, resp \in SessionResponses :
           FetchSettles(op, resp, now, now)
    \/ ViewFeedClick
    \/ RedirectFires
    \/ CreatePostClick
    \/ \E term \in {"", "cat"} : TypeSearch(term)
    \/ ConnectClick("header")
    \/ \E op \in connectOps, ok \in BOOLEAN : WalletConnectSettles(op, ok)
    \/ \E op \in connectOps : RequestAccountsSettles(op, SessionAccounts)
    \/ \E op \in connectOps : ConnectWaitEnds(op)
    \/ DisconnectClick
    \/ \E i \in 1..Len(images) : MintClick(images[i])
    \/ \E op \in mintOps : EthAccountsSettles(op, SessionAccounts)
    \/ \E op \in mintOps, ok \in BOOLEAN :
           SendCallsSettles(op, [ok |-> ok, message |-> ""])
    \/ \E timer \in mintTimers : MintTimerFires(timer)

SessionSpec == SessionInit /\ [][SessionNext]_vars

\* Messages of the errors a provider request can throw at mintNFT: none,
\* one word of each rule, words of two rules at once, words in another case,
\* and texts of no rule, shorter and longer than 50 characters.
MintErrorMessages ==
    { "",
      "no matching signer found",
      "insufficient funds for gas * price + value",
      "User rejected the request",
      "Request denied",
      "no matching signer: insufficient funds",
      "insufficient funds, request rejected",
      "rejected: no matching signer",
      "User Rejected",
      "timeout",
      "execution reverted: ERC721: token already minted by this account" }

MintSendResults ==
    {[ok |-> TRUE, message |-> ""]}
    \cup {[ok |-> FALSE, message |-> m] : m \in MintErrorMessages}

MintAccountResults ==
    {[ok |-> TRUE, accounts |-> a, message |-> ""] : a \in ActiveAccountLists}
    \cup {[ok |-> FALSE, accounts |-> <<>>, message |-> m] :
             m \in {"", "User rejected the request"}}

\* The gallery page after one connectWallet call has gone through.
MintInit ==
    /\ pinataJWT = TRUE
    /\ page = "feed"
    /\ mounts = 1
    /\ description = ""
    /\ imageFile = NoFile
    /\ loading = FALSE
    /\ status = "Ready to store images"
    /\ uploadingImage = FALSE
    /\ \E list \in SampleLists \ {<<>>} :
          /\ storage = Item(JSONstringify(list))
          /\ images = SortImages(JSONparse(JSONstringify(list)).value)
    /\ storeOps = {}
    /\ redirects = 0
    /\ now = MaxClock
    /\ feedLoading = FALSE
    /\ searchTerm = ""
    /\ provider = TRUE
    /\ connected = TRUE
    /\ subAccountAddress = Sub
    /\ universalAddress = Universal
    /\ connectLoading = FALSE
    /\ mintingImageId = NoId
    /\ mintStatus = <<>>
    /\ connectOps = {}
    /\ mintOps = {}
    /\ mintTimers = {}
    /\ nConnects = 1
    /\ nMints = 0
    /\ nAlerts = 0
    /\ nFetch = 0
    /\ nStarted = 0
    /\ nStored = 0

\* The mint flow of the connected gallery page.
MintNext ==
    \/ \E i \in 1..Len(images) : MintClick(images[i])
    \/ \E op \in mintOps, res \in MintAccountResults : EthAccountsSettles(op, res)
    \/ \E op \in mintOps, res \in MintSendResults : SendCallsSettles(op, res)
    \/ \E timer \in mintTimers : MintTimerFires(timer)

MintSpec == MintInit /\ [][MintNext]_vars

\* ------------------------------------------------------------- claims

\* The record list in session storage, as a read that tolerates an absent
\* or unreadable item sees it.
StoredList ==
    IF storage.present /\ storage.text.wellFormed
    THEN JSONparse(storage.text).value
    ELSE <<>>

NewestFirst(list) ==
    \A i \in 1..(Len(list) - 1) : list[i].timestamp >= list[i + 1].timestamp

\* C1: a store operation that reaches the upload while no credential is
\* configured ends with the configuration error as its status, and issues no
\* request to the pinning endpoint: none in that step, and none is ever
\* counted or pending while the credential is missing.
C1_NoCredentialNoRequest ==
    /\ [](~pinataJWT => nFetch = 0 /\ storeOps = {})
    /\ [][(~pinataJWT /\ nStarted' = nStarted + 1) =>
            /\ status' = "Storage failed: " \o ConfigurationError
            /\ nFetch' = nFetch
            /\ storage' = storage
            /\ ~loading' /\ ~uploadingImage']_vars

C1_Witness ==
    /\ ~pinataJWT
    /\ nStarted > 0
    /\ status = "Storage failed: " \o ConfigurationError
    /\ nFetch = 0

\* C2: a click on a mint button while the provider is absent or the
\* sub-account address is empty sets that record's status to "Please connect
\* wallet first", leaves mintingImageId as it was and issues no provider
\* request: no call becomes pending and no pending call moves on.
C2_MintNeedsWallet ==
    [][\A i \in 1..Len(images) :
         (MintClick(images[i]) /\ (~provider \/ subAccountAddress = "")) =>
            /\ images[i].id \in DOMAIN mintStatus'
            /\ mintStatus'[images[i].id] = "Please connect wallet first"
            /\ mintingImageId' = mintingImageId
            /\ mintOps' = mintOps
            /\ connectOps' = connectOps
            /\ nMints' = nMints]_vars

C2_Witness ==
    /\ connected
    /\ subAccountAddress = ""
    /\ mintOps = {}
    /\ nMints = 0
    /\ \E id \in DOMAIN mintStatus : mintStatus[id] = "Please connect wallet first"

\* C3 (as claimed): at most one storeImage operation is in flight at any
\* time.
C3_AtMostOneStoreInFlight == Cardinality(storeOps) <= 1

\* C4 (as claimed): while a mint attempt for a record is in flight, the
\* record's mint button is disabled, and no second attempt for the record is
\* in flight.
C4_NoDuplicateMint ==
    /\ \A op \in mintOps :
          (FeedMounted(op) /\ connected) => MintButtonDisabled(op.image)
    /\ \A a, b \in mintOps : a.image.id = b.image.id => a = b

\* C5 (as claimed): at most one connectWallet operation is in flight at
\* any time.
C5_AtMostOneConnectInFlight == Cardinality(connectOps) <= 1

\* C6: when the gallery loads, it holds exactly as many records as store
\* operations have succeeded, ordered by timestamp descending.
C6_LoadYieldsAllNewestFirst ==
    [][(page = "home" /\ page' = "feed") =>
         /\ ~feedLoading'
         /\ Len(images') = nStored
         /\ NewestFirst(images')]_vars

C6_Witness ==
    /\ page = "feed"
    /\ nStored = 2
    /\ Len(images) = 2
    /\ images[1].timestamp > images[2].timestamp

\* C7 (as claimed): no two records of the stored list have the same id.
C7_UniqueIds ==
    \A i, j \in 1..Len(StoredList) :
        StoredList[i].id = StoredList[j].id => i = j

\* C8: the stored list is ordered newest first by timestamp.
C8_StoredNewestFirst == NewestFirst(StoredList)

C8_Witness ==
    /\ Len(StoredList) = 2
    /\ StoredList[1].timestamp > StoredList[2].timestamp

\* C9: a successful store writes the new record followed by the list that
\* was stored before (empty when the item was absent), unchanged.
C9_StorePrepends ==
    [][nStored' = nStored + 1 =>
         /\ storage'.present /\ storage'.text.wellFormed
         /\ Len(JSONparse(storage'.text).value) = Len(StoredList) + 1
         /\ Tail(JSONparse(storage'.text).value) = StoredList
         /\ Head(JSONparse(storage'.text).value).timestamp = now'
         /\ SubSeq(Head(JSONparse(storage'.text).value).image, 1, 7) = "ipfs://"]_vars

C9_Witness ==
    /\ nStored = 2
    /\ Len(StoredList) = 2

\* C10 (as claimed): while the stored text is malformed JSON, the gallery's
\* load ends with no records, and a store operation whose upload succeeded
\* writes a list holding just its record.
C10_MalformedReadAsEmpty ==
    [][(storage.present /\ ~storage.text.wellFormed) =>
         /\ (page = "home" /\ page' = "feed") => (images' = <<>> /\ ~feedLoading')
         /\ \A op \in storeOps, resp \in Responses, t1, t2 \in Clock :
               (FetchSettles(op, resp, t1, t2) /\ UploadOutcome(resp).ok) =>
                  /\ nStored' = nStored + 1
                  /\ storage'.present /\ storage'.text.wellFormed
                  /\ Len(storage'.text.objects) = 1]_vars

\* C11: an upload failure ends the store operation in the step that sees
\* it: no request is issued or left pending for it, session storage and the
\* pending redirects are as before, and the Home that made the call (while it
\* is mounted) shows "Storage failed: <message>" with loading and
\* uploadingImage false.  The failures are the missing credential, a request
\* that fails, a non-2xx answer and a 2xx answer without content hash.
C11_UploadFailureIsTerminal ==
    [][/\ (~pinataJWT /\ nStarted' = nStarted + 1) =>
            /\ status' = "Storage failed: " \o ConfigurationError
            /\ nFetch' = nFetch /\ storeOps' = storeOps
            /\ storage' = storage /\ redirects' = redirects
            /\ ~loading' /\ ~uploadingImage'
       /\ \A op \in storeOps \ storeOps', resp \in Responses :
            ((resp.rejects \/ ~resp.ok \/ resp.IpfsHash = "")
               /\ FetchSettles(op, resp, now, now)) =>
               /\ nFetch' = nFetch /\ storeOps' = storeOps \ {op}
               /\ storage' = storage /\ redirects' = redirects
               /\ nStored' = nStored
               /\ Mounted(op) =>
                    /\ ~loading' /\ ~uploadingImage'
                    /\ status' = "Storage failed: " \o
                         (IF resp.rejects THEN "Failed to fetch"
                          ELSE IF resp.ok THEN "No IPFS hash returned from Pinata"
                          ELSE IF resp.details = ""
                          THEN "Pinata upload failed (" \o ToString(resp.status)
                               \o "): Unknown error"
                          ELSE "Pinata upload failed (" \o ToString(resp.status)
                               \o "): " \o resp.details)]_vars

C11_Witness ==
    /\ page = "home"
    /\ status = "Storage failed: No IPFS hash returned from Pinata"
    /\ ~loading /\ ~uploadingImage
    /\ nFetch = 1 /\ storeOps = {}
    /\ storage = Absent /\ redirects = 0

\* C12: a connectWallet call whose wallet_connect or eth_requestAccounts
\* throws raises one alert, leaves connected false, leaves both addresses as
\* they were, returns connectLoading to false and issues no further request.
C12_ConnectFailureLeavesDisconnected ==
    [][\A op \in connectOps :
         (nAlerts' = nAlerts + 1 /\ op \notin connectOps') =>
            /\ op.pc \in {"wallet_connect", "eth_requestAccounts"}
            /\ ~connected'
            /\ subAccountAddress' = subAccountAddress
            /\ universalAddress' = universalAddress
            /\ ~connectLoading'
            /\ nConnects' = nConnects
            /\ connectOps' = connectOps \ {op}]_vars

\* C13: a mint attempt has a wallet_sendCalls request pending only from the
\* step in which its eth_accounts request returned a non-empty list whose
\* first account is the sub-account address the attempt holds (the one stored
\* when its button was clicked); when the list is empty or its first account
\* is another one, the attempt ends with a failure status and has no
\* wallet_sendCalls request.
C13_SendOnlyAfterAccountMatch ==
    [][/\ \A op \in mintOps' \ mintOps :
            op.pc = "wallet_sendCalls" =>
               \E o \in mintOps, res \in AccountResults(ActiveAccountLists) :
                  /\ o.id = op.id /\ o.pc = "eth_accounts"
                  /\ EthAccountsSettles(o, res)
                  /\ res.ok
                  /\ Len(res.accounts) > 0
                  /\ res.accounts[1] = o.subAccountAddress
                  /\ op.subAccountAddress = o.subAccountAddress
       /\ \A o \in mintOps \ mintOps', res \in AccountResults(ActiveAccountLists) :
            (/\ o.pc = "eth_accounts"
             /\ res.ok
             /\ Len(res.accounts) = 0 \/ res.accounts[1] # o.subAccountAddress
             /\ EthAccountsSettles(o, res)) =>
               /\ \A op \in mintOps' : op.id # o.id
               /\ mintOps' = mintOps \ {o}
               /\ SubSeq(mintStatus'[o.image.id], 1, Len(CrossMark)) = CrossMark
               /\ mintingImageId' = NoId
       /\ \A op \in mintOps' \ mintOps :
            op.pc = "eth_accounts" =>
               op.subAccountAddress = subAccountAddress /\ op.id = nMints']_vars

C13_Witness ==
    /\ \E op \in mintOps : op.pc = "wallet_sendCalls"
    /\ \E t \in mintTimers :
          /\ t.imageId \in DOMAIN mintStatus
          /\ mintStatus[t.imageId] =
                CrossMark \o " Sub-account not properly initialized. Please recon"

\* C14: a mint attempt issues wallet_sendCalls at most once, and the request
\* has one parameter: an atomic batch of exactly one call, from the
\* sub-account address the attempt holds, to the NFT contract, with value 0,
\* whose data is the call mintNFT(string) with the one argument the content
\* reference of the record being minted.
C14_OneAtomicSingleCall ==
    /\ [](\A op \in mintOps :
            /\ op.id <= nMints
            /\ \A o \in mintOps : o.id = op.id => o = op
            /\ op.pc = "eth_accounts" => op.params = <<>>
            /\ op.pc = "wallet_sendCalls" =>
                 /\ Len(op.params) = 1
                 /\ op.params[1].atomicRequired
                 /\ op.params[1].from = op.subAccountAddress
                 /\ op.params[1].from # ""
                 /\ Len(op.params[1].calls) = 1
                 /\ op.params[1].calls[1].to = NFT_CONTRACT_ADDRESS
                 /\ op.params[1].calls[1].value = "0x0"
                 /\ op.params[1].calls[1].data =
                       <<"mintNFT(string)", op.image.image>>
                 /\ \E i \in 1..Len(images) : images[i] = op.image)
    /\ [][\A op \in mintOps' \ mintOps :
            /\ op.pc = "wallet_sendCalls" =>
                 \E o \in mintOps :
                    o.id = op.id /\ o.pc = "eth_accounts" /\ o.image = op.image
            /\ op.pc = "eth_accounts" => op.id > nMints]_vars

C14_Witness ==
    \E op \in mintOps :
       /\ op.pc = "wallet_sendCalls"
       /\ op.params[1].from = Sub
       /\ op.params[1].chainId = "0x14a34"
       /\ op.params[1].calls[1].data = <<"mintNFT(string)", "ipfs://QmA">>

\* The rules of the claimed classification, in their order, and the
\* category each one stands for.
RuleWords == <<{"no matching signer"}, {"insufficient"}, {"rejected", "denied"}>>
RuleCategory ==
    <<"Sub-account not ready. Please reconnect wallet.",
      "Insufficient funds for gas",
      "Transaction rejected">>
RuleMatches(i, message) == \E w \in RuleWords[i] : Includes(message, w)
FirstRule(message) ==
    CHOOSE i \in 1..3 :
       RuleMatches(i, message) /\ \A j \in 1..(i - 1) : ~RuleMatches(j, message)
ClaimedText(message) ==
    IF message = "" THEN "Mint failed"
    ELSE IF \E i \in 1..3 : RuleMatches(i, message)
    THEN RuleCategory[FirstRule(message)]
    ELSE CHOOSE t \in {SubSeq(message, 1, k) : k \in 0..Len(message)} :
            IF Len(message) > 50 THEN Len(t) = 50 ELSE t = message

\* C15: the status a failed mint attempt leaves is the cross mark followed by
\* the category of the first rule, in the order signer, funds, rejection,
\* that the error's message matches; by the first 50 characters of a message
\* no rule matches; by "Mint failed" for an error without message.  The
\* error of the account test is classified like any other.
C15_FailureShownByFirstRule ==
    [][\A op \in mintOps :
         /\ \A res \in MintSendResults :
               (SendCallsSettles(op, res) /\ ~res.ok) =>
                  mintStatus'[op.image.id] =
                     CrossMark \o " " \o ClaimedText(res.message)
         /\ \A res \in MintAccountResults :
               EthAccountsSettles(op, res) =>
                  /\ ~res.ok =>
                       mintStatus'[op.image.id] =
                          CrossMark \o " " \o ClaimedText(res.message)
                  /\ (res.ok /\ (res.accounts = <<>>
                                   \/ res.accounts[1] # op.subAccountAddress)) =>
                       mintStatus'[op.image.id] =
                          CrossMark \o " " \o ClaimedText(AccountError)]_vars

C15_Witness ==
    /\ \E id \in DOMAIN mintStatus :
          mintStatus[id] = CrossMark \o
             " execution reverted: ERC721: token already minted b"
    /\ \E id \in DOMAIN mintStatus :
          mintStatus[id] = CrossMark \o " Insufficient funds for gas"
    /\ Cardinality(mintTimers) = 2

\* C16: storage never holds more records than store operations have had a
\* successful upload; a step that changes storage is the end of a store
\* operation with a successful upload, puts one record in front and leaves the
\* records already there as they are; and it is no connect, mint, search or
\* gallery load: the wallet calls and timers, the Gallery's state and the
\* mounted page are as before.
C16_OnlyStoresWrite ==
    /\ [](Len(StoredList) <= nStored /\ nStored <= nFetch)
    /\ [][storage' # storage =>
            /\ nStored' = nStored + 1
            /\ \E op \in storeOps : storeOps' = storeOps \ {op}
            /\ redirects' = redirects + 1
            /\ StoredList' # <<>> /\ Tail(StoredList') = StoredList
            /\ SubSeq(Head(StoredList').image, 1, 7) = "ipfs://"
            /\ connectOps' = connectOps /\ mintOps' = mintOps
            /\ mintTimers' = mintTimers
            /\ walletHist' = walletHist
            /\ feedVars' = feedVars
            /\ page' = page /\ mounts' = mounts]_vars
    /\ [][(walletOps' # walletOps \/ walletHist' # walletHist
             \/ feedVars' # feedVars \/ mounts' # mounts) =>
            storage' = storage /\ nStored' = nStored]_vars

C16_Witness ==
    /\ Len(StoredList) = 1 /\ nStored = 1 /\ nFetch = 2
    /\ page = "feed" /\ searchTerm = "cat"
    /\ connected /\ nMints = 2 /\ mintTimers # {}

\* C17: when the credential is configured and the endpoint answers 2xx with
\* a non-empty hash h, the store operation writes, unless the stored text is
\* unreadable, a record whose image is "ipfs://" followed by h, with the
\* description the operation was started with; and every record a store
\* operation writes has the reference of its own upload as image.
C17_StoredImageIsReference ==
    [][\A op \in storeOps \ storeOps', resp \in Responses :
         (resp.ok /\ resp.IpfsHash # "" /\ ~resp.rejects
            /\ \E t1, t2 \in Clock : FetchSettles(op, resp, t1, t2)) =>
            /\ pinataJWT
            /\ (~storage.present \/ storage.text.wellFormed) =>
                  /\ nStored' = nStored + 1
                  /\ Len(StoredList') = Len(StoredList) + 1
            /\ nStored' = nStored + 1 =>
                  /\ Head(StoredList').image = "ipfs://" \o resp.IpfsHash
                  /\ Head(StoredList').description = op.description]_vars

C17_Witness ==
    /\ Len(StoredList) = 2
    /\ StoredList[1].image = "ipfs://QmA"
    /\ StoredList[2].image = "ipfs://QmA"
    /\ StoredList[1].description # StoredList[2].description
    /\ nFetch = 2

\* The term occurs in the text when the case of letters is ignored.
Letters == "ABCDEFGHIJKLMNOPQRSTUVWXYZabcdefghijklmnopqrstuvwxyz"
SameLetter(a, b) ==
    \/ a = b
    \/ \E i \in 1..26 :
          {a, b} = {SubSeq(Letters, i, i), SubSeq(Letters, i + 26, i + 26)}
OccursIn(term, text) ==
    \E k \in 0..(Len(text) - Len(term)) :
       \A n \in 1..Len(term) :
          SameLetter(SubSeq(text, k + n, k + n), SubSeq(term, n, n))

\* C18: on the gallery page, when the search term is not empty and occurs,
\* the case of letters ignored, in the description of exactly one record of
\* the loaded list, the filtered list is that record alone.
C18_UniqueMatchIsSelected ==
    (page = "feed" /\ searchTerm # "") =>
       \A i \in 1..Len(images) :
          (/\ OccursIn(searchTerm, images[i].description)
           /\ \A j \in 1..Len(images) :
                 j # i => ~OccursIn(searchTerm, images[j].description)) =>
             FilteredImages = <<images[i]>>

C18_Witness ==
    /\ page = "feed"
    /\ searchTerm = "cat"
    /\ Len(images) = 2
    /\ images[1].description = "dog"
    /\ images[2].description = "Cat"
    /\ FilteredImages = <<images[2]>>

\* C19: on the gallery page a term that occurs in no description gives the
\* empty filtered list and the empty term gives the whole loaded list; typing
\* in the search box changes neither the loaded list nor the storage, so the
\* list shown after the term is cleared is the one loaded before.
C19_NoMatchIsEmptyAndHarmless ==
    /\ [](page = "feed" =>
            /\ (searchTerm # ""
                  /\ \A i \in 1..Len(images) :
                        ~OccursIn(searchTerm, images[i].description)) =>
                 FilteredImages = <<>>
            /\ searchTerm = "" => FilteredImages = images)
    /\ [][(searchTerm' # searchTerm /\ mounts' = mounts) =>
            /\ images' = images
            /\ storage' = storage
            /\ searchTerm' = "" => FilterImages(images', searchTerm') = images]_vars

C19_Witness ==
    /\ page = "feed"
    /\ searchTerm = "bird"
    /\ Len(images) = 2
    /\ FilteredImages = <<>>
    /\ Len(StoredList) = 2

\* C20: the id of every record in storage is the decimal string of the
\* record's own timestamp.
C20_IdIsTimestampString ==
    \A i \in 1..Len(StoredList) :
       StoredList[i].id = ToString(StoredList[i].timestamp)

\* A text of white space only, the empty text included.
Blank(text) == \A k \in 1..Len(text) : SubSeq(text, k, k) = " "

\* C21: a click on Store while no file is selected or the description is
\* blank sets the status to "Please select an image and add a description"
\* and does nothing else: no request is issued or counted, storage and the
\* pending redirects are as before, loading and uploadingImage stay false.
C21_InvalidInputOnlySetsStatus ==
    [][(page = "home" /\ (imageFile = NoFile \/ Blank(description))
          /\ StoreClick) =>
          /\ status' = "Please select an image and add a description"
          /\ nFetch' = nFetch /\ nStarted' = nStarted
          /\ storeOps' = storeOps
          /\ storage' = storage
          /\ redirects' = redirects
          /\ loading' = loading /\ ~loading'
          /\ uploadingImage' = uploadingImage /\ ~uploadingImage'
          /\ imageFile' = imageFile /\ description' = description]_vars

C21_Witness ==
    /\ page = "home"
    /\ status = "Please select an image and add a description"
    /\ imageFile # NoFile
    /\ description = " "
    /\ pinataJWT
    /\ nStarted = 0 /\ nFetch = 0 /\ storage = Absent

\* C22: connected turns true only in the step that ends a connectWallet
\* call whose wallet_connect and, after it, eth_requestAccounts have
\* returned: a call waits for eth_requestAccounts only after its own
\* wallet_connect was pending, and reaches its end only after its own
\* eth_requestAccounts was pending; no step other than the end of a call,
\* a throw or the click moves a call.  While the provider is absent a click
\* on a connect button changes nothing and no request is ever pending.
C22_ConnectOrder ==
    /\ [](~provider => connectOps = {} /\ nConnects = 0 /\ ~connected)
    /\ [][/\ (connected' /\ ~connected) =>
               \E op \in connectOps :
                  op.pc = "wait" /\ connectOps' = connectOps \ {op}
          /\ \A op \in connectOps' \ connectOps :
               /\ op.pc = "wallet_connect" =>
                    /\ op.id = nConnects' /\ nConnects' = nConnects + 1
                    /\ provider
               /\ op.pc = "eth_requestAccounts" =>
                    \E o \in connectOps \ connectOps' :
                       o.id = op.id /\ o.pc = "wallet_connect"
               /\ op.pc = "wait" =>
                    \E o \in connectOps \ connectOps' :
                       o.id = op.id /\ o.pc = "eth_requestAccounts"
          /\ \A control \in {"header", "card"} :
               (~provider /\ ConnectClick(control)) => UNCHANGED vars]_vars

C22_Witness ==
    /\ connected /\ provider
    /\ nConnects = 1 /\ nAlerts = 0
    /\ connectOps = {}
    /\ subAccountAddress = Sub /\ universalAddress = Universal

\* C23: whenever connected is true the stored sub-account address is not
\* empty.
C23_ConnectedHasSubAccount == connected => subAccountAddress # ""

\* C24: a wallet_sendCalls request is issued only while the wallet is
\* connected: in the step in which a mint attempt's request becomes pending,
\* connected is true and the stored sub-account address is not empty.
C24_NoSendWhileDisconnected ==
    [][\A op \in mintOps' \ mintOps :
         op.pc = "wallet_sendCalls" =>
            connected /\ subAccountAddress # ""]_vars

\* C25: the redirect timer of a successful store fires only while no store
\* operation is in flight, so that the storage the gallery loads from holds
\* the record of every upload started so far that can succeed.
C25_RedirectAfterAllStores ==
    [][redirects' < redirects => storeOps = {}]_vars

\* C26: the timer of a mint attempt removes the status of that attempt
\* only: when a timer fires while the timer of a later attempt on the same
\* record is pending, the status that later attempt has left stays as it is.
C26_TimerRemovesOwnStatus ==
    [][\A t \in mintTimers \ mintTimers', u \in mintTimers' :
         (/\ u.imageId = t.imageId /\ u.inst = t.inst /\ u.id > t.id
          /\ t.imageId \in DOMAIN mintStatus) =>
            /\ t.imageId \in DOMAIN mintStatus'
            /\ mintStatus'[t.imageId] = mintStatus[t.imageId]]_vars

====
